---- MODULE Spec2Model ----
(***************************************************************************)
(* A model of src/python/main.py: the DNS message codec (build_query,      *)
(* parse_dns_packet, decode_name with compression pointers) and the        *)
(* resolver built on it (iterative resolve, stub lookup_domain).           *)
(*                                                                         *)
(* Python bytes and ASCII str values are sequences of numbers 0..255.  A   *)
(* reader (io.BytesIO) is a buffer and a 0-based position.  An operation   *)
(* that can raise returns a record with ok = FALSE and the exception's     *)
(* name in err.  hw is the largest offset any read of the operation asked  *)
(* for (position + size), so hw > Len(buf) says a read ran past the end.   *)
(***************************************************************************)
EXTENDS Integers, Sequences, FiniteSets, TLC

VARIABLES
    stack,      \* call stack of resolve: frames [domain_name, record_type, nameserver]
    pc,         \* where the program is: query, await, done, failed, stub_await, stub_done
    result,     \* the value the outermost call returned, or the exception's name
    lastq,      \* the last datagram handed to sendto: [ip, port, wire]
    nsent,      \* number of datagrams sent so far
    response,   \* the packet send_query returned last, None once the next query is out
    hist,       \* the frame (and its depth) that received `response`
    arg,        \* sys.argv[1], the name the program was started with
    cop,        \* codec harness: which codec operation was applied last
    cbuf,       \* codec harness: the byte buffer under the reader
    cpos,       \* codec harness: the reader's position before the operation
    cin,        \* codec harness: how the buffer was made
    cout,       \* codec harness: what the operation returned
    unclosed,   \* sockets that send_query calls now over created and did not close
    dpc,        \* decode_name run step by step: idle, loop, label, pointer, return,
                \* returned, failed
    dbuf,       \* decode_name run: the buffer under the reader
    dpos,       \* decode_name run: the reader's position
    dlen,       \* decode_name run: the length byte read last
    dframes,    \* decode_name run: the active calls [parts, current_pos], innermost last
    dout        \* decode_name run: the name returned or the exception's name

vars == <<stack, pc, result, lastq, nsent, response, hist, arg, cop, cbuf, cpos, cin, cout,
          unclosed, dpc, dbuf, dpos, dlen, dframes, dout>>
rvars == <<stack, pc, result, lastq, nsent, response, hist, arg, unclosed>>
cvars == <<cop, cbuf, cpos, cin, cout>>
dvars == <<dpc, dbuf, dpos, dlen, dframes, dout>>

(***************************************************************************)
(* Program constants.                                                      *)
(***************************************************************************)
TYPE_A == 1
TYPE_NS == 2
CLASS_IN == 1
DNS_PORT == 53
DOT == 46
POINTER_MASK == 192
OFFSET_MASK == 63
HEADER_SIZE == 12
RECORD_FIXED_SIZE == 10

(***************************************************************************)
(* Bounds of the model.                                                    *)
(***************************************************************************)
\* deepest nesting of resolve calls the model follows
MaxDepth == 3
\* most datagrams one run sends
MaxQueries == 3
\* deepest nesting of decode_name calls before Python's RecursionError
RecursionLimit == 3
\* longest buffer decode_name is run on step by step
MaxBufLen == 4

None == [none |-> TRUE]

\* the one element of a set {e}: `Only({f(x) : x \in {e}})` is f(e) with e
\* computed once
Only(S) == CHOOSE x \in S : TRUE

Min(a, b) == IF a < b THEN a ELSE b
Max(a, b) == IF a > b THEN a ELSE b

(***************************************************************************)
(* io.BytesIO.read(n) at position pos: the bytes that are there, fewer     *)
(* than n (or none) near the end of the buffer, and never an error.        *)
(***************************************************************************)
Read(buf, pos, n) == SubSeq(buf, pos + 1, Min(pos + n, Len(buf)))

Tell(buf, pos, n) == IF pos >= Len(buf) THEN pos ELSE Min(pos + n, Len(buf))

Ok(val, pos, hw) == [ok |-> TRUE, val |-> val, pos |-> pos, hw |-> hw, err |-> ""]
Err(name, pos, hw) == [ok |-> FALSE, val |-> <<>>, pos |-> pos, hw |-> hw, err |-> name]

\* struct.pack("!H", n) and struct.pack("!I", n)
PackH(n) == <<(n \div 256) % 256, n % 256>>
PackI(n) == PackH(n \div 65536) \o PackH(n % 65536)

\* struct.unpack of one big-endian field from bytes b at index i (1-based)
UnpackH(b, i) == b[i] * 256 + b[i + 1]
\* a 32-bit field is kept as its two 16-bit halves <<high, low>>, standing for
\* high * 65536 + low, which is above the integers TLC computes with
UnpackI(b, i) == <<UnpackH(b, i), UnpackH(b, i + 2)>>

RECURSIVE Concat(_)
Concat(ss) == IF ss = <<>> THEN <<>> ELSE Head(ss) \o Concat(Tail(ss))

\* sep.join(parts)
RECURSIVE Join(_, _)
Join(sep, parts) ==
    IF parts = <<>> THEN <<>>
    ELSE IF Len(parts) = 1 THEN parts[1]
    ELSE parts[1] \o sep \o Join(sep, Tail(parts))

\* s.split(b"."): the pieces between separators, empty pieces kept.  Piece k
\* lies between the (k-1)-th and the k-th separator.
Split(s) ==
    LET dots == {i \in 1..Len(s) : s[i] = DOT}
        edge(k) == IF k = 0 THEN 0
                   ELSE IF k > Cardinality(dots) THEN Len(s) + 1
                   ELSE CHOOSE i \in dots : Cardinality({j \in dots : j < i}) = k - 1
    IN  [k \in 1..(Cardinality(dots) + 1) |-> SubSeq(s, edge(k - 1) + 1, edge(k) - 1)]

\* str(x) for an int x >= 0, as ASCII digits
RECURSIVE Str(_)
Str(x) == IF x < 10 THEN <<48 + x>> ELSE Str(x \div 10) \o <<48 + (x % 10)>>

ip_to_string(ip) == Join(<<DOT>>, [i \in 1..Len(ip) |-> Str(ip[i])])

(***************************************************************************)
(* Encoding.                                                               *)
(***************************************************************************)
\* header_to_bytes with every field packed low byte first
header_to_bytes_le(header) ==
    <<header.id % 256, header.id \div 256, header.flags % 256, header.flags \div 256,
      header.num_questions % 256, header.num_questions \div 256,
      header.num_answers % 256, header.num_answers \div 256,
      header.num_authorities % 256, header.num_authorities \div 256,
      header.num_additionals % 256, header.num_additionals \div 256>>

header_to_bytes(header) ==
    PackH(header.id) \o PackH(header.flags) \o PackH(header.num_questions)
        \o PackH(header.num_answers) \o PackH(header.num_authorities)
        \o PackH(header.num_additionals)

\* question_to_bytes with the type packed low byte first
question_to_bytes_le(question) ==
    question.name \o <<question.type_ % 256, (question.type_ \div 256) % 256>>
        \o PackH(question.class_)

question_to_bytes(question) ==
    question.name \o PackH(question.type_) \o PackH(question.class_)

\* bytes([len(part)]) raises ValueError above 255; encode("ascii") raises on a
\* code above 127
encode_dns_name(domain_name) ==
    LET parts == Split(domain_name) IN
    IF \E i \in 1..Len(domain_name) : domain_name[i] > 127
        THEN Err("UnicodeEncodeError", 0, 0)
    ELSE IF \E i \in 1..Len(parts) : Len(parts[i]) > 255
        THEN Err("ValueError", 0, 0)
    ELSE Ok(Concat([i \in 1..Len(parts) |-> <<Len(parts[i])>> \o parts[i]]) \o <<0>>, 0, 0)

build_query(domain_name, record_type, id) ==
    LET name == encode_dns_name(domain_name)
        header == [id |-> id, flags |-> 0, num_questions |-> 1, num_answers |-> 0,
                   num_authorities |-> 0, num_additionals |-> 0]
        question == [name |-> name.val, type_ |-> record_type, class_ |-> CLASS_IN]
    IN  IF ~name.ok THEN name
        ELSE IF record_type < 0 \/ record_type > 65535 THEN Err("struct.error", 0, 0)
        ELSE Ok(header_to_bytes(header) \o question_to_bytes(question), 0, 0)

(***************************************************************************)
(* Decoding.                                                               *)
(***************************************************************************)
\* Python's a & b on non-negative ints
RECURSIVE BitAnd(_, _)
BitAnd(a, b) ==
    IF a = 0 \/ b = 0 THEN 0
    ELSE (a % 2) * (b % 2) + 2 * BitAnd(a \div 2, b \div 2)

\* struct.unpack("!HHHHHH", reader.read(12)): struct.error on fewer than 12 bytes
parse_header(buf, pos) ==
    LET b == Read(buf, pos, HEADER_SIZE)
        hw == pos + HEADER_SIZE
    IN  IF Len(b) # HEADER_SIZE THEN Err("struct.error", Tell(buf, pos, HEADER_SIZE), hw)
        ELSE Ok([id |-> UnpackH(b, 1), flags |-> UnpackH(b, 3),
                 num_questions |-> UnpackH(b, 5), num_answers |-> UnpackH(b, 7),
                 num_authorities |-> UnpackH(b, 9), num_additionals |-> UnpackH(b, 11)],
                pos + HEADER_SIZE, hw)

\* the test of line 124: any of the top two bits set
IsPointer(length) == BitAnd(length, POINTER_MASK) # 0

RECURSIVE decode_name_loop(_, _, _, _, _)
RECURSIVE decode_compressed_name(_, _, _, _, _)

\* decode_name on a reader at pos; depth is the number of nested decode_name
\* calls the interpreter still allows
decode_name(buf, pos, depth) == decode_name_loop(buf, pos, <<>>, depth, pos)

\* one turn of the while loop of decode_name, parts being the labels read so far
decode_name_loop(buf, pos, parts, depth, hw) ==
    LET b == Read(buf, pos, 1)
        hw1 == Max(hw, pos + 1)
    IN  IF b = <<>> THEN Err("IndexError", pos, hw1)
        ELSE LET length == b[1] IN
            IF length = 0 THEN Ok(Join(<<DOT>>, parts), pos + 1, hw1)
            ELSE IF IsPointer(length)
                THEN Only({IF r.ok THEN Ok(Join(<<DOT>>, Append(parts, r.val)), r.pos, r.hw)
                           ELSE r :
                           r \in {decode_compressed_name(length, buf, pos + 1, depth, hw1)}})
            ELSE decode_name_loop(buf, Tell(buf, pos + 1, length),
                                  Append(parts, Read(buf, pos + 1, length)), depth,
                                  Max(hw1, pos + 1 + length))

\* the reader is just past the pointer's first byte, whose value is length
decode_compressed_name(length, buf, pos, depth, hw) ==
    LET second == Read(buf, pos, 1)
        hw1 == Max(hw, pos + 1)
    IN  IF second = <<>> THEN Err("struct.error", pos, hw1)
        ELSE LET pointer == BitAnd(length, OFFSET_MASK) * 256 + second[1]
                 current_pos == pos + 1
             IN  Only({IF res.ok THEN Ok(res.val, current_pos, res.hw)
                       ELSE Err(res.err, res.pos, res.hw) :
                       res \in {IF depth = 0 THEN Err("RecursionError", pointer, hw1)
                                   ELSE decode_name_loop(buf, pointer, <<>>, depth - 1, hw1)}})

parse_question(buf, pos) ==
    Only({IF ~name.ok THEN name
          ELSE LET b == Read(buf, name.pos, 4)
                   hw == Max(name.hw, name.pos + 4)
               IN  IF Len(b) # 4 THEN Err("struct.error", Tell(buf, name.pos, 4), hw)
                   ELSE Ok([name |-> name.val, type_ |-> UnpackH(b, 1),
                            class_ |-> UnpackH(b, 3)], name.pos + 4, hw) :
          name \in {decode_name(buf, pos, RecursionLimit)}})

\* the payload of a record whose name and fixed fields are read: lines 91-98,
\* the reader being at p2
parse_record_data(buf, name, type_, class_, ttl, data_len, p2, hw) ==
    LET rec(data) == [name |-> name, type_ |-> type_, class_ |-> class_,
                      ttl |-> ttl, data |-> data]
    IN  IF type_ = TYPE_A
            THEN Ok(rec(ip_to_string(Read(buf, p2, data_len))),
                    Tell(buf, p2, data_len), Max(hw, p2 + data_len))
        ELSE IF type_ = TYPE_NS
            THEN Only({IF d.ok THEN Ok(rec(d.val), d.pos, Max(hw, d.hw))
                       ELSE Err(d.err, d.pos, Max(hw, d.hw)) :
                       d \in {decode_name(buf, p2, RecursionLimit)}})
        ELSE Ok(rec(Read(buf, p2, data_len)),
                Tell(buf, p2, data_len), Max(hw, p2 + data_len))

\* line 89 reads 10 bytes into data and line 90 reads the next 10, which are the
\* ones unpacked
parse_record(buf, pos) ==
    Only({IF ~name.ok THEN name
          ELSE LET p1 == Tell(buf, name.pos, RECORD_FIXED_SIZE)
                   b == Read(buf, p1, RECORD_FIXED_SIZE)
                   p2 == Tell(buf, p1, RECORD_FIXED_SIZE)
                   hw == Max(name.hw, p1 + RECORD_FIXED_SIZE)
               IN  IF Len(b) # RECORD_FIXED_SIZE THEN Err("struct.error", p2, hw)
                   ELSE parse_record_data(buf, name.val, UnpackH(b, 1), UnpackH(b, 3),
                                          UnpackI(b, 5), UnpackH(b, 9), p2, hw) :
          name \in {decode_name(buf, pos, RecursionLimit)}})

\* [parse(reader) for _ in range(n)]: acc is the list so far
RECURSIVE parse_questions(_, _, _, _, _)
parse_questions(buf, pos, n, acc, hw) ==
    IF n = 0 THEN Ok(acc, pos, hw)
    ELSE Only({IF ~q.ok THEN Err(q.err, q.pos, Max(hw, q.hw))
               ELSE parse_questions(buf, q.pos, n - 1, Append(acc, q.val), Max(hw, q.hw)) :
               q \in {parse_question(buf, pos)}})

RECURSIVE parse_records(_, _, _, _, _)
parse_records(buf, pos, n, acc, hw) ==
    IF n = 0 THEN Ok(acc, pos, hw)
    ELSE Only({IF ~r.ok THEN Err(r.err, r.pos, Max(hw, r.hw))
               ELSE parse_records(buf, r.pos, n - 1, Append(acc, r.val), Max(hw, r.hw)) :
               r \in {parse_record(buf, pos)}})

\* the four list comprehensions of lines 104-107, after the header
parse_sections(data, header) ==
    Only({IF ~questions.ok THEN questions ELSE
    Only({IF ~answers.ok THEN answers ELSE
    Only({IF ~authorities.ok THEN authorities ELSE
    Only({IF ~additionals.ok THEN additionals
          ELSE Ok([header |-> header.val, questions |-> questions.val,
                   answers |-> answers.val, authorities |-> authorities.val,
                   additionals |-> additionals.val], additionals.pos, additionals.hw) :
          additionals \in {parse_records(data, authorities.pos,
                                         header.val.num_additionals, <<>>,
                                         authorities.hw)}}) :
          authorities \in {parse_records(data, answers.pos, header.val.num_authorities,
                                         <<>>, answers.hw)}}) :
          answers \in {parse_records(data, questions.pos, header.val.num_answers,
                                     <<>>, questions.hw)}}) :
          questions \in {parse_questions(data, header.pos, header.val.num_questions,
                                         <<>>, header.hw)}})

parse_dns_packet(data) ==
    Only({IF ~header.ok THEN header ELSE parse_sections(data, header) :
          header \in {parse_header(data, 0)}})

(***************************************************************************)
(* The resolver.                                                           *)
(***************************************************************************)
\* "198.41.0.4", the nameserver resolve starts from
ROOT_NAMESERVER == <<49, 57, 56, 46, 52, 49, 46, 48, 46, 52>>
\* "205.251.192.179", the server lookup_domain asks
STUB_NAMESERVER == <<50, 48, 53, 46, 50, 53, 49, 46, 49, 57, 50, 46, 49, 55, 57>>

\* the first record x of recs with x.type_ = t: its data, or None (the for loops
\* of get_answer, get_nameserver_ip and get_nameserver)
FirstData(recs, t) ==
    IF \E i \in 1..Len(recs) : recs[i].type_ = t
        THEN recs[CHOOSE i \in 1..Len(recs) :
                    /\ recs[i].type_ = t
                    /\ \A j \in 1..(i - 1) : recs[j].type_ # t].data
    ELSE None

get_answer(packet) == FirstData(packet.answers, TYPE_A)

get_nameserver_ip(packet) == FirstData(packet.additionals, TYPE_A)

get_nameserver_data(packet) == FirstData(packet.authorities, TYPE_NS)

\* bytes.decode(): the same codes for ASCII; a byte above 127 is taken to raise
\* UnicodeDecodeError
CanDecode(b) == \A i \in 1..Len(b) : b[i] < 128

\* Python's truth value of a function result: None and b"" are false
Truthy(v) == v # None /\ v # <<>>

Frame(domain_name, record_type, nameserver) ==
    [domain_name |-> domain_name, record_type |-> record_type, nameserver |-> nameserver]

Top == stack[Len(stack)]

\* Raise with the exception caught at line 180: a failure inside a nested
\* resolve ends that call only and its caller loops again
RaiseInnerOnly(name) ==
    IF Len(stack) > 1
        THEN /\ pc' = "query"
             /\ stack' = SubSeq(stack, 1, Len(stack) - 1)
             /\ UNCHANGED result
    ELSE /\ pc' = "failed"
         /\ stack' = <<>>
         /\ result' = name

\* an exception nobody catches: every frame of resolve is unwound
Raise(name) ==
    /\ pc' = "failed"
    /\ stack' = <<>>
    /\ result' = name

\* `return ip` of line 175: to main at depth 1, else to line 180 of the caller,
\* which makes it the caller's nameserver and loops
ReturnIp(ip) ==
    IF Len(stack) = 1
        THEN /\ pc' = "done"
             /\ stack' = <<>>
             /\ result' = ip
    ELSE /\ pc' = "query"
         /\ stack' = [SubSeq(stack, 1, Len(stack) - 1) EXCEPT
                          ![Len(stack) - 1].nameserver = ip]
         /\ UNCHANGED result

\* ResolveStep with the final else of line 181 looping instead of raising
ResolveStepNoRaise(packet) ==
    LET ip == get_answer(packet)
        ns_ip == get_nameserver_ip(packet)
        ns_data == get_nameserver_data(packet)
    IN  IF Truthy(ip) THEN ReturnIp(ip)
        ELSE IF Truthy(ns_ip)
            THEN /\ stack' = [stack EXCEPT ![Len(stack)].nameserver = ns_ip]
                 /\ pc' = "query"
                 /\ UNCHANGED result
        ELSE IF ns_data # None /\ ~CanDecode(ns_data) THEN Raise("UnicodeDecodeError")
        ELSE IF Truthy(ns_data)
            THEN /\ stack' = Append(stack, Frame(ns_data, TYPE_A, ROOT_NAMESERVER))
                 /\ pc' = "query"
                 /\ UNCHANGED result
        ELSE /\ pc' = "query"
             /\ UNCHANGED <<stack, result>>

\* ResolveStep with the nested resolution taking over the caller's domain_name
ResolveStepRetarget(packet) ==
    LET ip == get_answer(packet)
        ns_ip == get_nameserver_ip(packet)
        ns_data == get_nameserver_data(packet)
    IN  IF Truthy(ip) THEN ReturnIp(ip)
        ELSE IF Truthy(ns_ip)
            THEN /\ stack' = [stack EXCEPT ![Len(stack)].nameserver = ns_ip]
                 /\ pc' = "query"
                 /\ UNCHANGED result
        ELSE IF ns_data # None /\ ~CanDecode(ns_data) THEN Raise("UnicodeDecodeError")
        ELSE IF Truthy(ns_data)
            THEN /\ stack' = Append([stack EXCEPT ![Len(stack)].domain_name = ns_data],
                                    Frame(ns_data, TYPE_A, ROOT_NAMESERVER))
                 /\ pc' = "query"
                 /\ UNCHANGED result
        ELSE Raise("Exception")

\* ResolveStep with a depth counter: no nested resolve inside a nested resolve
ResolveStepDepthLimit(packet) ==
    LET ip == get_answer(packet)
        ns_ip == get_nameserver_ip(packet)
        ns_data == get_nameserver_data(packet)
    IN  IF Truthy(ip) THEN ReturnIp(ip)
        ELSE IF Truthy(ns_ip)
            THEN /\ stack' = [stack EXCEPT ![Len(stack)].nameserver = ns_ip]
                 /\ pc' = "query"
                 /\ UNCHANGED result
        ELSE IF ns_data # None /\ ~CanDecode(ns_data) THEN Raise("UnicodeDecodeError")
        ELSE IF Truthy(ns_data) /\ Len(stack) < 2
            THEN /\ stack' = Append(stack, Frame(ns_data, TYPE_A, ROOT_NAMESERVER))
                 /\ pc' = "query"
                 /\ UNCHANGED result
        ELSE Raise("Exception")

\* lines 174-182 of resolve on the packet send_query returned
ResolveStep(packet) ==
    LET ip == get_answer(packet)
        ns_ip == get_nameserver_ip(packet)
        ns_data == get_nameserver_data(packet)
    IN  IF Truthy(ip) THEN ReturnIp(ip)
        ELSE IF Truthy(ns_ip)
            THEN /\ stack' = [stack EXCEPT ![Len(stack)].nameserver = ns_ip]
                 /\ pc' = "query"
                 /\ UNCHANGED result
        ELSE IF ns_data # None /\ ~CanDecode(ns_data) THEN Raise("UnicodeDecodeError")
        ELSE IF Truthy(ns_data)
            THEN /\ stack' = Append(stack, Frame(ns_data, TYPE_A, ROOT_NAMESERVER))
                 /\ pc' = "query"
                 /\ UNCHANGED result
        ELSE Raise("Exception")

\* whether resolve would call itself on this packet
Nests(packet) ==
    /\ ~Truthy(get_answer(packet))
    /\ ~Truthy(get_nameserver_ip(packet))
    /\ Truthy(get_nameserver_data(packet))

\* the transaction ids random.randint(0, 65535) may draw
Ids == {0, 4660}

\* send_query up to sendto (lines 113-115), called from line 173; line 114
\* creates the socket the call uses
SendQuery(id) ==
    /\ pc = "query"
    /\ nsent < MaxQueries
    /\ LET query == build_query(Top.domain_name, Top.record_type, id) IN
       IF ~query.ok
           THEN /\ Raise(query.err)
                /\ UNCHANGED <<lastq, nsent>>
       ELSE /\ lastq' = [ip |-> Top.nameserver, port |-> DNS_PORT, wire |-> query.val]
            /\ nsent' = nsent + 1
            /\ pc' = "await"
            /\ UNCHANGED <<stack, result>>
    /\ response' = None
    /\ hist' = None
    /\ UNCHANGED <<arg, unclosed>>
    /\ UNCHANGED cvars
    /\ UNCHANGED dvars

\* recvfrom and parse_dns_packet return (lines 117-118) and resolve goes on to
\* its next query, its return or its raise.  No line of send_query closes the
\* socket: it is left to the interpreter's finalizer, which is not modelled.
RecvResponse(packet) ==
    /\ pc = "await"
    /\ Nests(packet) => Len(stack) < MaxDepth
    /\ response' = packet
    /\ hist' = [frame |-> Top, depth |-> Len(stack)]
    /\ ResolveStep(packet)
    /\ unclosed' = unclosed + 1
    /\ UNCHANGED <<lastq, nsent, arg>>
    /\ UNCHANGED cvars
    /\ UNCHANGED dvars

\* sendto, recvfrom or parse_dns_packet raises inside send_query
QueryFails(name) ==
    /\ pc \in {"await", "stub_await"}
    /\ Raise(name)
    /\ unclosed' = unclosed + 1
    /\ UNCHANGED <<lastq, nsent, response, hist, arg>>
    /\ UNCHANGED cvars
    /\ UNCHANGED dvars

\* lookup_domain up to sendto (line 147), after main printed resolve's result
LookupQuery(id) ==
    /\ pc = "done"
    /\ nsent < MaxQueries
    /\ LET query == build_query(arg, TYPE_A, id) IN
       IF ~query.ok
           THEN /\ Raise(query.err)
                /\ UNCHANGED <<lastq, nsent>>
       ELSE /\ lastq' = [ip |-> STUB_NAMESERVER, port |-> DNS_PORT, wire |-> query.val]
            /\ nsent' = nsent + 1
            /\ pc' = "stub_await"
            /\ UNCHANGED <<stack, result>>
    /\ response' = None
    /\ hist' = None
    /\ UNCHANGED <<arg, unclosed>>
    /\ UNCHANGED cvars
    /\ UNCHANGED dvars

\* line 148 on the packet send_query returned
lookup_result(packet) ==
    IF packet.answers = <<>> THEN Err("IndexError", 0, 0)
    ELSE Ok(ip_to_string(packet.answers[1].data), 0, 0)

LookupResponse(packet) ==
    /\ pc = "stub_await"
    /\ response' = packet
    /\ hist' = [frame |-> Frame(arg, TYPE_A, STUB_NAMESERVER), depth |-> 0]
    /\ LET r == lookup_result(packet) IN
       IF r.ok
           THEN /\ pc' = "stub_done"
                /\ result' = r.val
                /\ UNCHANGED stack
       ELSE Raise(r.err)
    /\ unclosed' = unclosed + 1
    /\ UNCHANGED <<lastq, nsent, arg>>
    /\ UNCHANGED cvars
    /\ UNCHANGED dvars

(***************************************************************************)
(* What the transport may hand back, as parse_dns_packet decodes it.       *)
(***************************************************************************)
Rec(type_, data) ==
    [name |-> <<97>>, type_ |-> type_, class_ |-> CLASS_IN, ttl |-> <<0, 60>>, data |-> data]

\* "ns", a nameserver's host name
NsName == <<110, 115>>
\* the payloads parse_record gives A records: ip_to_string of the rdata read
Ip1 == ip_to_string(<<1, 2, 3, 4>>)
Ip2 == ip_to_string(<<8, 8, 8, 8>>)

\* record types a caller may ask for or a server may send: A, NS and one opaque
QTypes == {TYPE_A, TYPE_NS, 16}

AnswerRecs == {Rec(TYPE_A, Ip1), Rec(TYPE_A, <<>>), Rec(TYPE_NS, NsName), Rec(16, <<120>>)}
AuthorityRecs == {Rec(TYPE_NS, NsName), Rec(TYPE_NS, <<>>)}
AdditionalRecs == {Rec(TYPE_A, Ip2), Rec(TYPE_A, <<>>)}

\* a section of at most two records
Section(S) == {<<>>} \cup {<<r>> : r \in S} \cup {<<r, s>> : r \in S, s \in S}

Header(na, nu, nd) ==
    [id |-> 0, flags |-> 0, num_questions |-> 0, num_answers |-> na,
     num_authorities |-> nu, num_additionals |-> nd]

Packets ==
    {[header |-> Header(Len(an), Len(au), Len(ad)), questions |-> <<>>,
      answers |-> an, authorities |-> au, additionals |-> ad] :
        an \in Section(AnswerRecs), au \in Section(AuthorityRecs),
        ad \in Section(AdditionalRecs)}

\* "a" and "a.b", the names the program is started with
Domains == {<<97>>, <<97, 46, 98>>}

Errors == {"OSError", "struct.error", "IndexError"}

CodecIdle ==
    /\ cop = "idle"
    /\ cbuf = <<>>
    /\ cpos = 0
    /\ cin = None
    /\ cout = None

DecodeIdle ==
    /\ dpc = "idle"
    /\ dbuf = <<>>
    /\ dpos = 0
    /\ dlen = 0
    /\ dframes = <<>>
    /\ dout = None

\* main has called resolve(sys.argv[1], record_type); the program itself passes
\* TYPE_A, a caller of the function may pass any type
Init ==
    /\ arg \in Domains
    /\ \E t \in QTypes : stack = <<Frame(arg, t, ROOT_NAMESERVER)>>
    /\ pc = "query"
    /\ result = None
    /\ lastq = None
    /\ nsent = 0
    /\ response = None
    /\ hist = None
    /\ unclosed = 0
    /\ CodecIdle
    /\ DecodeIdle

Next ==
    \/ \E id \in Ids : SendQuery(id)
    \/ \E packet \in Packets : RecvResponse(packet)
    \/ \E name \in Errors : QueryFails(name)
    \/ \E id \in Ids : LookupQuery(id)
    \/ \E packet \in Packets : LookupResponse(packet)

Spec == Init /\ [][Next]_vars

(***************************************************************************)
(* The codec on its own: buffers as a server may send them, and the codec  *)
(* operations applied to them.                                             *)
(***************************************************************************)
\* labels on the wire, each behind its length byte, without the final zero
EncodeLabels(labels) == Concat([i \in 1..Len(labels) |-> <<Len(labels[i])>> \o labels[i]])

WireName(labels) == EncodeLabels(labels) \o <<0>>

\* a compression pointer to offset off: 11 and 14 bits of offset
WirePointer(off) == <<POINTER_MASK + (off \div 256), off % 256>>

Zeros(n) == [i \in 1..n |-> 0]

\* a resource record: name, then `skip` bytes (0 on the wire of the DNS
\* standard), type, class, ttl, rdlength and the rdata bytes present
WireRecord(name, skip, type_, rdlength, rdata) ==
    name \o Zeros(skip) \o PackH(type_) \o PackH(CLASS_IN) \o PackI(60)
        \o PackH(rdlength) \o rdata

\* line 148 on the bytes recvfrom returned (send_query's parse, then the lookup)
lookup_domain(data) ==
    Only({IF ~packet.ok THEN packet ELSE lookup_result(packet.val) :
          packet \in {parse_dns_packet(data)}})

\* Names to encode: up to two labels out of "", "a", "A", "ab", a label of 63
\* bytes and one of 64
LongLabel == [i \in 1..63 |-> 97]
OverLabel == [i \in 1..64 |-> 97]
NameLabels == {<<>>, <<97>>, <<65>>, <<97, 98>>, LongLabel, OverLabel}
QueryNames ==
    NameLabels \cup {Join(<<DOT>>, <<l, m>>) : l \in NameLabels, m \in NameLabels}

\* 16-bit record types, both bytes used
QueryTypes == {0, 1, 2, 255, 256, 4660, 65535}

\* A message with one question for "a.b", one answer and, with `extra`, one
\* additional A record after it.  The answer's name is a pointer to the
\* question's name when `compressed`.  `cut` bytes are missing from the end.
QuestionName == WireName(<<<<97>>, <<98>>>>)

MessageBytes(skip, type_, rdata, compressed, extra) ==
    header_to_bytes([id |-> 4660, flags |-> 33152, num_questions |-> 1,
                     num_answers |-> 1, num_authorities |-> 0,
                     num_additionals |-> IF extra THEN 1 ELSE 0])
        \o question_to_bytes([name |-> QuestionName, type_ |-> type_, class_ |-> CLASS_IN])
        \o WireRecord(IF compressed THEN WirePointer(HEADER_SIZE) ELSE QuestionName,
                      skip, type_, Len(rdata), rdata)
        \o (IF extra THEN WireRecord(WirePointer(HEADER_SIZE), skip, TYPE_A, 4, <<8, 8, 4, 4>>)
            ELSE <<>>)

RDatas == {<<93, 184, 216, 34>>, <<8, 8, 8, 8>>, <<1, 2>>, WireName(<<NsName>>)}

MessageInputs ==
    {[kind |-> "message",
      buf |-> SubSeq(MessageBytes(skip, t, rd, c, x), 1,
                     Len(MessageBytes(skip, t, rd, c, x)) - cut),
      pos |-> HEADER_SIZE + Len(QuestionName) + 4,
      skip |-> skip, type_ |-> t, rdata |-> rd, extra |-> x, cut |-> cut,
      ptr |-> 0, labels |-> <<>>, suffix |-> <<>>] :
        skip \in {0, RECORD_FIXED_SIZE}, t \in QTypes, rd \in RDatas,
        c \in BOOLEAN, x \in BOOLEAN, cut \in {0, 1, 2, 3, 4, 5, 12, 20, 30, 40}}

\* Buffers for name compression: `pad` bytes, a first name written out, a
\* second name that is `prefix` and a pointer to the first name's suffix from
\* its label j on (j past the last label: to its final zero), and a third name
\* that is `prefix3` and a pointer to the second name.  The reader is at the
\* second or the third name; ptr is the offset of that name's pointer, labels
\* the labels the name stands for.
FirstNames == {<<<<97>>>>, <<<<97>>, <<98, 99>>>>}
Prefixes == {<<>>, <<<<100>>>>}
Pads == {0, HEADER_SIZE, 260}

NameBuffer(pad, first, j, prefix, prefix3) ==
    Zeros(pad) \o WireName(first)
        \o EncodeLabels(prefix)
        \o WirePointer(pad + Len(EncodeLabels(SubSeq(first, 1, j - 1))))
        \o EncodeLabels(prefix3) \o WirePointer(pad + Len(WireName(first)))
        \o <<7>>

NameInput(pad, first, j, prefix, prefix3, third) ==
    [kind |-> "names", buf |-> NameBuffer(pad, first, j, prefix, prefix3),
     pos |-> IF third
                 THEN pad + Len(WireName(first)) + Len(EncodeLabels(prefix)) + 2
             ELSE pad + Len(WireName(first)),
     ptr |-> IF third
                 THEN pad + Len(WireName(first)) + Len(EncodeLabels(prefix)) + 2
                          + Len(EncodeLabels(prefix3))
             ELSE pad + Len(WireName(first)) + Len(EncodeLabels(prefix)),
     labels |-> IF third THEN prefix3 \o prefix \o SubSeq(first, j, Len(first))
                ELSE prefix \o SubSeq(first, j, Len(first)),
     suffix |-> SubSeq(first, j, Len(first)),
     skip |-> 0, type_ |-> 0, rdata |-> <<>>, extra |-> FALSE, cut |-> 0]

NameInputs ==
    UNION {{NameInput(pad, first, j, prefix, prefix3, third) :
                pad \in Pads, j \in 1..(Len(first) + 1), prefix \in Prefixes,
                prefix3 \in Prefixes, third \in BOOLEAN} : first \in FirstNames}

Inputs == MessageInputs \cup NameInputs

\* the bytes of a reply arrive (recvfrom, line 117) and a reader is made on them
Receive(input) ==
    /\ cop = "idle"
    /\ cop' = "received"
    /\ cbuf' = input.buf
    /\ cpos' = input.pos
    /\ cin' = input
    /\ cout' = None
    /\ UNCHANGED rvars
    /\ UNCHANGED dvars

\* build_query(name, type_) with transaction id `id`
EncodeQuery(name, type_, id) ==
    /\ cop = "idle"
    /\ LET query == build_query(name, type_, id) IN
        /\ cop' = IF query.ok THEN "encoded" ELSE "encode_failed"
        /\ cbuf' = query.val
        /\ cout' = query
    /\ cpos' = 0
    /\ cin' = [kind |-> "query", name |-> name, type_ |-> type_]
    /\ UNCHANGED rvars
    /\ UNCHANGED dvars

\* headers to encode: 16-bit fields that use the high byte, the low byte or both
Headers ==
    {[id |-> i, flags |-> f, num_questions |-> nq, num_answers |-> na,
      num_authorities |-> nu, num_additionals |-> nd] :
        i \in {0, 4660, 65535}, f \in {0, 256, 33152}, nq \in {0, 1},
        na \in {0, 258}, nu \in {0, 1}, nd \in {0, 513}}

\* header_to_bytes(header)
EncodeHeader(header) ==
    /\ cop = "idle"
    /\ cop' = "header_encoded"
    /\ cbuf' = header_to_bytes(header)
    /\ cpos' = 0
    /\ cin' = [kind |-> "header", header |-> header]
    /\ cout' = None
    /\ UNCHANGED rvars
    /\ UNCHANGED dvars

\* parse_header on a reader over the encoded header
ParseHeader ==
    /\ cop = "header_encoded"
    /\ cop' = "header_parsed"
    /\ cout' = parse_header(cbuf, cpos)
    /\ UNCHANGED <<cbuf, cpos, cin>>
    /\ UNCHANGED rvars
    /\ UNCHANGED dvars

\* parse_dns_packet on the whole buffer
DecodeMessage ==
    /\ \/ cop = "encoded"
       \/ cop = "received" /\ cin.kind = "message"
    /\ cop' = "decoded"
    /\ cout' = parse_dns_packet(cbuf)
    /\ UNCHANGED <<cbuf, cpos, cin>>
    /\ UNCHANGED rvars
    /\ UNCHANGED dvars

\* lookup_domain's use of the reply
LookupDomain ==
    /\ cop = "received"
    /\ cin.kind = "message"
    /\ cop' = "looked_up"
    /\ cout' = lookup_domain(cbuf)
    /\ UNCHANGED <<cbuf, cpos, cin>>
    /\ UNCHANGED rvars
    /\ UNCHANGED dvars

\* parse_record with the reader at the answer record
ParseRecord ==
    /\ cop = "received"
    /\ cin.kind = "message"
    /\ cop' = "record_parsed"
    /\ cout' = parse_record(cbuf, cpos)
    /\ UNCHANGED <<cbuf, cpos, cin>>
    /\ UNCHANGED rvars
    /\ UNCHANGED dvars

\* decode_name with the reader at a name
DecodeName ==
    /\ cop = "received"
    /\ cin.kind = "names"
    /\ cop' = "name_decoded"
    /\ cout' = decode_name(cbuf, cpos, RecursionLimit)
    /\ UNCHANGED <<cbuf, cpos, cin>>
    /\ UNCHANGED rvars
    /\ UNCHANGED dvars

CodecInit ==
    /\ CodecIdle
    /\ stack = <<>>
    /\ pc = "codec"
    /\ result = None
    /\ lastq = None
    /\ nsent = 0
    /\ response = None
    /\ hist = None
    /\ arg = <<>>
    /\ unclosed = 0
    /\ DecodeIdle

CodecNext ==
    \/ \E input \in Inputs : Receive(input)
    \/ \E name \in QueryNames, type_ \in QueryTypes, id \in Ids : EncodeQuery(name, type_, id)
    \/ \E header \in Headers : EncodeHeader(header)
    \/ ParseHeader
    \/ DecodeMessage
    \/ LookupDomain
    \/ ParseRecord
    \/ DecodeName

CodecSpec == CodecInit /\ [][CodecNext]_vars

(***************************************************************************)
(* decode_name run one statement at a time on any small buffer: the reader  *)
(* and the stack of decode_name calls, each entered through                *)
(* decode_compressed_name except the first.                                *)
(***************************************************************************)
\* bytes of a buffer: the final zero, label lengths, and a byte for each
\* setting of the top two bits (01, 10, 11)
BufBytes == {0, 1, 2, 64, 128, 192}

Buffers == UNION {[1..n -> BufBytes] : n \in 0..MaxBufLen}

\* a call of decode_name: its parts, and the current_pos the
\* decode_compressed_name that made the call will seek back to
NameFrame(current_pos) == [parts |-> <<>>, current_pos |-> current_pos]

\* an exception leaves decode_name and every caller
DecodeRaise(name) ==
    /\ dpc' = "failed"
    /\ dframes' = <<>>
    /\ dout' = [ok |-> FALSE, val |-> <<>>, err |-> name]
    /\ UNCHANGED <<dbuf, dpos, dlen>>

\* line 123: length := reader.read(1)[0], and the tests of lines 123-124
ReadLength ==
    /\ dpc = "loop"
    /\ LET b == Read(dbuf, dpos, 1) IN
       IF b = <<>> THEN DecodeRaise("IndexError")
       ELSE /\ dlen' = b[1]
            /\ dpos' = dpos + 1
            /\ dpc' = IF b[1] = 0 THEN "return"
                      ELSE IF IsPointer(b[1]) THEN "pointer"
                      ELSE "label"
            /\ UNCHANGED <<dbuf, dframes, dout>>
    /\ UNCHANGED rvars
    /\ UNCHANGED cvars

\* line 128: parts.append(reader.read(length))
ReadLabel ==
    /\ dpc = "label"
    /\ dframes' = [dframes EXCEPT ![Len(dframes)].parts = Append(@, Read(dbuf, dpos, dlen))]
    /\ dpos' = Tell(dbuf, dpos, dlen)
    /\ dpc' = "loop"
    /\ UNCHANGED <<dbuf, dlen, dout>>
    /\ UNCHANGED rvars
    /\ UNCHANGED cvars

\* FollowPointer without the nested call: the reader is moved to the pointer
\* and the same loop goes on, the name starting again there
FollowPointerInPlace ==
    /\ dpc = "pointer"
    /\ LET second == Read(dbuf, dpos, 1) IN
       IF second = <<>> THEN DecodeRaise("struct.error")
       ELSE /\ dpos' = BitAnd(dlen, OFFSET_MASK) * 256 + second[1]
            /\ dframes' = [dframes EXCEPT ![Len(dframes)].parts = <<>>]
            /\ dpc' = "loop"
            /\ UNCHANGED <<dbuf, dlen, dout>>
    /\ UNCHANGED rvars
    /\ UNCHANGED cvars

\* line 125 and lines 133-137: decode_compressed_name reads the second byte,
\* keeps the position and calls decode_name at the pointer; the interpreter
\* raises RecursionError when the calls nest too deep
FollowPointer ==
    /\ dpc = "pointer"
    /\ LET second == Read(dbuf, dpos, 1) IN
       IF second = <<>> THEN DecodeRaise("struct.error")
       ELSE IF Len(dframes) > RecursionLimit THEN DecodeRaise("RecursionError")
       ELSE /\ dframes' = Append(dframes, NameFrame(dpos + 1))
            /\ dpos' = BitAnd(dlen, OFFSET_MASK) * 256 + second[1]
            /\ dpc' = "loop"
            /\ UNCHANGED <<dbuf, dlen, dout>>
    /\ UNCHANGED rvars
    /\ UNCHANGED cvars

\* line 129, and for a nested call lines 138-139 and 125-126 of its caller:
\* seek back, append the result, break, and return in turn
ReturnName ==
    /\ dpc = "return"
    /\ LET name == Join(<<DOT>>, dframes[Len(dframes)].parts) IN
       IF Len(dframes) = 1
           THEN /\ dpc' = "returned"
                /\ dout' = [ok |-> TRUE, val |-> name, err |-> ""]
                /\ dframes' = <<>>
                /\ UNCHANGED dpos
       ELSE /\ dpos' = dframes[Len(dframes)].current_pos
            /\ dframes' = [SubSeq(dframes, 1, Len(dframes) - 1) EXCEPT
                               ![Len(dframes) - 1].parts = Append(@, name)]
            /\ UNCHANGED <<dpc, dout>>
    /\ UNCHANGED <<dbuf, dlen>>
    /\ UNCHANGED rvars
    /\ UNCHANGED cvars

\* decode_name has been called with the reader anywhere in a buffer
DecodeInit ==
    /\ dbuf \in Buffers
    /\ dpos \in 0..Len(dbuf)
    /\ dpc = "loop"
    /\ dlen = 0
    /\ dframes = <<NameFrame(None)>>
    /\ dout = None
    /\ CodecIdle
    /\ stack = <<>>
    /\ pc = "decode"
    /\ result = None
    /\ lastq = None
    /\ nsent = 0
    /\ response = None
    /\ hist = None
    /\ arg = <<>>
    /\ unclosed = 0

DecodeNext ==
    \/ ReadLength
    \/ ReadLabel
    \/ FollowPointer
    \/ ReturnName

\* the interpreter goes on running the call until it returns or raises
DecodeSpec == DecodeInit /\ [][DecodeNext]_vars /\ WF_vars(DecodeNext)

(***************************************************************************)
(* Properties of iterative resolve (specification Spec).                   *)
(***************************************************************************)
HasType(recs, t) == \E i \in 1..Len(recs) : recs[i].type_ = t

\* a call of resolve has just handled `response`
Handled == hist # None /\ hist.depth >= 1

\* the call that handled `response` returned `ip`: to main, or to the resolve
\* that called it, whose nameserver it becomes
Returned(ip) ==
    IF hist.depth = 1
        THEN pc = "done" /\ result = ip /\ stack = <<>>
    ELSE /\ pc = "query"
         /\ Len(stack) = hist.depth - 1
         /\ Top.nameserver = ip

\* C1: whenever the decoded response has an answer record of the requested
\* type, resolve returns the payload of the first such record and sends no
\* further query, whatever the authority and additional sections hold.
C1_AnswerOfRequestedTypeReturned ==
    (Handled /\ HasType(response.answers, hist.frame.record_type))
        => Returned(FirstData(response.answers, hist.frame.record_type))

\* C2: with no answer of the requested type and an additional A record, the
\* call stays in its frame with that record's address as nameserver for the
\* same name and type (so its next query goes there) and starts no nested
\* resolution; and an A answer from a server reached by referral is returned
\* as the final result.
C2_GlueFollowed ==
    /\ (Handled /\ ~HasType(response.answers, hist.frame.record_type)
            /\ HasType(response.additionals, TYPE_A))
        => /\ pc = "query"
           /\ Len(stack) = hist.depth
           /\ Top = [hist.frame EXCEPT
                        !.nameserver = FirstData(response.additionals, TYPE_A)]
    /\ (Handled /\ hist.depth = 1 /\ hist.frame.nameserver # ROOT_NAMESERVER
            /\ HasType(response.answers, TYPE_A))
        => /\ pc = "done"
           /\ result = FirstData(response.answers, TYPE_A)

\* C3: with no answer of the requested type, no additional A record and an
\* authority NS record, a nested resolve of that host name for type A starts
\* at the root nameserver; and the address a nested resolve returns is the
\* nameserver of the call that started it.
C3_GluelessNested ==
    /\ (Handled /\ ~HasType(response.answers, hist.frame.record_type)
            /\ ~HasType(response.additionals, TYPE_A)
            /\ HasType(response.authorities, TYPE_NS))
        => /\ pc = "query"
           /\ Len(stack) = hist.depth + 1
           /\ Top = Frame(FirstData(response.authorities, TYPE_NS), TYPE_A,
                          ROOT_NAMESERVER)
           /\ stack[hist.depth] = hist.frame
    /\ (Handled /\ hist.depth >= 2 /\ Len(stack) = hist.depth - 1)
        => /\ pc = "query"
           /\ Top.nameserver = get_answer(response)

\* C4: a response with empty answers, authorities and additionals, at any
\* depth and after any referral, makes resolve raise: nothing is returned,
\* every frame is unwound and no query can follow.
C4_EmptyResponseRaises ==
    (Handled /\ response.answers = <<>> /\ response.authorities = <<>>
        /\ response.additionals = <<>>)
        => /\ pc = "failed"
           /\ result = "Exception"
           /\ stack = <<>>
           /\ ~ENABLED (\E id \in Ids : SendQuery(id))

\* an empty response arrives inside a nested resolve that a glue referral had
\* already moved off the root nameserver
C4_Witness ==
    /\ Handled
    /\ hist.depth = 2
    /\ hist.frame.nameserver = Ip2
    /\ response.answers = <<>>
    /\ response.authorities = <<>>
    /\ response.additionals = <<>>
    /\ pc = "failed"

\* C6: a query of iterative resolve has flags 0 and a query of lookup_domain
\* has the recursion-desired bit (bit 8) set.
C6_FlagsByMode ==
    /\ pc = "await" => parse_header(lastq.wire, 0).val.flags = 0
    /\ pc = "stub_await" => BitAnd(parse_header(lastq.wire, 0).val.flags, 256) = 256

\* C13: every send_query that is over, by return or by exception, has closed
\* the socket it created.
C13_SocketReleased == unclosed = 0

\* the question of the datagram sent last
LastQuestion == parse_dns_packet(lastq.wire).val.questions[1]

\* C16: a call of resolve keeps its domain_name and record_type from its first
\* step to its last, whatever referrals and nested calls do to the stack, and
\* the query a call has out asks for the call's own name and type.
C16_TargetFixed ==
    /\ [](pc = "await" =>
              LastQuestion = [name |-> Top.domain_name, type_ |-> Top.record_type,
                              class_ |-> CLASS_IN])
    /\ [](stack # <<>> => stack[1].domain_name = arg)
    /\ [][\A i \in 1..Min(Len(stack), Len(stack')) :
              /\ stack'[i].domain_name = stack[i].domain_name
              /\ stack'[i].record_type = stack[i].record_type]_vars

\* the outermost call asks again for its own name at the address a nested
\* resolve returned
C16_Witness ==
    /\ pc = "await"
    /\ Len(stack) = 1
    /\ nsent = 3
    /\ Top.nameserver = Ip1
    /\ Top.domain_name = arg
    /\ LastQuestion.name = arg
    /\ lastq.ip = Ip1

\* C17: once resolve has failed, at any depth, no frame is left, the result is
\* the exception and not an address, and no query is sent any more, by resolve
\* or by the lookup_domain that main would have called next; and a send_query
\* that ends without a packet, or with a packet that has no answer, glue or
\* nameserver, is such a failure whatever the depth of the call.
C17_FailureAborts ==
    /\ [](pc = "failed" =>
              /\ stack = <<>>
              /\ result \in Errors \cup {"Exception"}
              /\ ~ENABLED (\E id \in Ids : SendQuery(id))
              /\ ~ENABLED (\E id \in Ids : LookupQuery(id)))
    /\ [][pc = "failed" => UNCHANGED <<pc, stack, result, nsent, lastq>>]_vars
    /\ [][(pc = "await" /\ pc' # "await" /\ response' = None)
              => (pc' = "failed" /\ stack' = <<>> /\ result' \in Errors
                     /\ nsent' = nsent)]_vars
    /\ [][(pc = "await" /\ response' # None /\ ~Truthy(get_answer(response'))
                /\ ~Truthy(get_nameserver_ip(response'))
                /\ ~Truthy(get_nameserver_data(response')))
              => (pc' = "failed" /\ stack' = <<>> /\ result' = "Exception"
                     /\ nsent' = nsent)]_vars

\* the query of a nested resolve (for the nameserver's name) failed in the
\* transport and the whole resolution is over
C17_Witness ==
    /\ pc = "failed"
    /\ result = "OSError"
    /\ nsent = 2
    /\ LastQuestion.name = NsName
    /\ stack = <<>>

\* C18: a referral never ends a call, however many queries were sent and
\* however deep the calls are nested: after glue the call is about to query
\* again, after a glueless NS record a nested call is about to query, and
\* nothing has been returned or raised.
C18_NoBound ==
    /\ (Handled /\ ~Truthy(get_answer(response))
            /\ Truthy(get_nameserver_ip(response)))
        => pc = "query" /\ Len(stack) = hist.depth
    /\ (Handled /\ Nests(response))
        => pc = "query" /\ Len(stack) = hist.depth + 1
    /\ (Handled /\ ~Truthy(get_answer(response))
            /\ (Truthy(get_nameserver_ip(response)) \/ Nests(response)))
        => result = None /\ stack[hist.depth].domain_name = hist.frame.domain_name

\* the nested resolve of the nameserver's name got a glueless referral to the
\* same name and nested again, and its query is out
C18_Witness ==
    /\ pc = "await"
    /\ Len(stack) = 3
    /\ stack[2] = Frame(NsName, TYPE_A, ROOT_NAMESERVER)
    /\ stack[3] = Frame(NsName, TYPE_A, ROOT_NAMESERVER)
    /\ LastQuestion.name = NsName
    /\ nsent = 3

(***************************************************************************)
(* Properties of the codec (specification CodecSpec).                      *)
(***************************************************************************)
\* C5: lookup_domain on a response with one A answer of 4 rdata bytes returns
\* their dotted-decimal rendering ("93.184.216.34" for 93, 184, 216, 34).
C5_StubReturnsAddress ==
    (cop = "looked_up" /\ cin.type_ = TYPE_A /\ Len(cin.rdata) = 4 /\ cin.cut = 0)
        => cout.ok /\ cout.val = ip_to_string(cin.rdata)

Labels(name) == Split(name)

\* C7 as stated: every name whose labels are at most 63 bytes long round-trips.
C7_RoundTripAnyLabels ==
    (cop = "decoded" /\ cin.kind = "query"
        /\ \A i \in 1..Len(Labels(cin.name)) : Len(Labels(cin.name)[i]) <= 63)
        => /\ cout.ok
           /\ cout.val.questions =
                  <<[name |-> cin.name, type_ |-> cin.type_, class_ |-> CLASS_IN]>>

\* C7: for every name whose labels are 1 to 63 bytes long and every 16-bit
\* type, parse_dns_packet(build_query(name, type)) has exactly one question,
\* with that name (case kept), that type and class IN.
C7_RoundTrip ==
    (cop = "decoded" /\ cin.kind = "query"
        /\ \A i \in 1..Len(Labels(cin.name)) :
               Len(Labels(cin.name)[i]) >= 1 /\ Len(Labels(cin.name)[i]) <= 63)
        => /\ cout.ok
           /\ cout.val.questions =
                  <<[name |-> cin.name, type_ |-> cin.type_, class_ |-> CLASS_IN]>>

\* a 63-byte label and an upper-case label with a type that uses both bytes
C7_Witness ==
    /\ cop = "decoded"
    /\ cin.kind = "query"
    /\ cin.name = Join(<<DOT>>, <<LongLabel, <<65>>>>)
    /\ cin.type_ = 4660
    /\ cout.ok
    /\ cout.val.questions[1].name = cin.name

\* C8: a name that ends in a pointer to an earlier suffix decodes to the name
\* its labels give when written out, and the reader ends 2 bytes past the
\* pointer's first byte, also when the pointed-to name ends in a pointer.
C8_CompressedNameSame ==
    cop = "name_decoded"
        => /\ cout.ok
           /\ cout.val = decode_name(WireName(cin.labels), 0, RecursionLimit).val
           /\ cout.pos = cin.ptr + 2

\* C9: parse_record takes type, class, ttl and rdlength from the 10 bytes right
\* after the name and the payload from the bytes after those; for an A or an
\* opaque record the reader advances by name + 10 + rdlength, and rdata
\* 8, 8, 8, 8 of an A record gives "8.8.8.8".
C9_RecordFields ==
    (cop = "record_parsed" /\ cin.skip = 0 /\ cin.cut = 0 /\ cin.type_ # TYPE_NS)
        => LET name == decode_name(cbuf, cpos, RecursionLimit)
               fixed == Read(cbuf, name.pos, RECORD_FIXED_SIZE)
           IN  /\ cout.ok
               /\ cout.val.type_ = UnpackH(fixed, 1)
               /\ cout.val.class_ = UnpackH(fixed, 3)
               /\ cout.val.ttl = UnpackI(fixed, 5)
               /\ cout.pos = name.pos + RECORD_FIXED_SIZE + UnpackH(fixed, 9)
               /\ (cin.type_ = TYPE_A /\ cin.rdata = <<8, 8, 8, 8>>)
                      => cout.val.data = <<56, 46, 56, 46, 56, 46, 56>>

\* C10: parse_dns_packet fails whenever one of its reads asks for bytes past
\* the end of the buffer; a packet it returns was read wholly inside it.
C10_TruncatedFails ==
    (cop = "decoded" /\ cout.ok) => cout.hw <= Len(cbuf)

\* C11: build_query fails for every name with a label longer than 63 bytes and
\* gives no query bytes for it.
C11_LongLabelRejected ==
    (cop \in {"encoded", "encode_failed"}
        /\ \E i \in 1..Len(Labels(cin.name)) : Len(Labels(cin.name)[i]) > 63)
        => /\ cop = "encode_failed"
           /\ ~cout.ok
           /\ cbuf = <<>>

\* the text ip_to_string gives four bytes: four runs of decimal digits with a
\* dot between them
IsDottedQuad(text) ==
    /\ Len(Split(text)) = 4
    /\ \A k \in 1..4 :
           /\ Split(text)[k] # <<>>
           /\ \A i \in 1..Len(Split(text)[k]) :
                  Split(text)[k][i] >= 48 /\ Split(text)[k][i] <= 57

\* C12: parse_record fails on an A record whose rdlength is not 4, and the
\* payload of every A record it returns is four dot-separated decimal octets.
C12_ARecordLength ==
    cop = "record_parsed"
        => /\ (cout.ok /\ cout.val.type_ = TYPE_A) => IsDottedQuad(cout.val.data)
           /\ (cin.type_ = TYPE_A /\ cin.skip = RECORD_FIXED_SIZE /\ cin.cut = 0
                   /\ Len(cin.rdata) # 4) => ~cout.ok

\* the fields of a header in the order of the dataclass
HeaderFields(header) ==
    <<header.id, header.flags, header.num_questions, header.num_answers,
      header.num_authorities, header.num_additionals>>

\* C14: header_to_bytes gives 12 bytes, field k of id, flags, qdcount, ancount,
\* nscount, arcount in bytes 2k-1 and 2k, high byte first; id 0x1234, flags
\* 0x0100, qdcount 1 gives 12 34 01 00 00 01 00 00 00 00 00 00; and parse_header
\* of the bytes gives the same fields back.
C14_HeaderBytes ==
    (cop \in {"header_encoded", "header_parsed"})
        => /\ Len(cbuf) = HEADER_SIZE
           /\ \A k \in 1..6 :
                  /\ cbuf[2 * k - 1] = HeaderFields(cin.header)[k] \div 256
                  /\ cbuf[2 * k] = HeaderFields(cin.header)[k] % 256
           /\ HeaderFields(cin.header) = <<4660, 256, 1, 0, 0, 0>>
                  => cbuf = <<18, 52, 1, 0, 0, 1, 0, 0, 0, 0, 0, 0>>
           /\ cop = "header_parsed"
                  => /\ cout.ok
                     /\ cout.val = cin.header
                     /\ cout.pos = HEADER_SIZE

\* the header of the example has been encoded and parsed back
C14_Witness ==
    /\ cop = "header_parsed"
    /\ HeaderFields(cin.header) = <<4660, 256, 1, 0, 0, 0>>
    /\ cbuf = <<18, 52, 1, 0, 0, 1, 0, 0, 0, 0, 0, 0>>
    /\ cout.ok
    /\ cout.val.flags = 256

(***************************************************************************)
(* Properties of decode_name step by step (specification DecodeSpec).      *)
(***************************************************************************)
\* C15: the length byte just read is taken as a pointer exactly when it is
\* 192 or more, and as a label length only when it is in 1..63.
C15_PointerIffTopTwoBits ==
    dpc \in {"label", "pointer"}
        => /\ dpc = "pointer" <=> dlen >= POINTER_MASK
           /\ dpc = "label" => (dlen >= 1 /\ dlen <= OFFSET_MASK)

\* C19: every run of decode_name ends: it returns a name or raises.
C19_DecodeNameTerminates == <>(dpc \in {"returned", "failed"})

\* a pointer that points at itself, at the start of the buffer: the calls
\* nested until the interpreter raised RecursionError
C19_Witness ==
    /\ dpc = "failed"
    /\ dout.err = "RecursionError"
    /\ dbuf = <<192, 0>>

====
